---- MODULE Spec2Model ----
(***************************************************************************)
(* Model of knqyf263/stargz-registry: the remote layer reader (package     *)
(* remote: Remote.Layers, redirect, Layer.ReadAt, Layer.fetch) and the     *)
(* concurrent multi-layer lookup of cmd/ecrane (run).                      *)
(*                                                                         *)
(* Three specifications share the module:                                  *)
(*   SpecReadAt  calls of Layer.ReadAt on a resolved layer handle          *)
(*   SpecLayers  Remote.Layers, one redirect probe per manifest descriptor *)
(*   Spec        run(): the errgroup fan-out over the layers and the       *)
(*               top-to-bottom scan of the result map                      *)
(***************************************************************************)
EXTENDS Integers, Sequences, FiniteSets, TLC

VARIABLES
    \* ---- Layer.ReadAt (SpecReadAt)
    handle,       \* the *Layer the calls are made on
    call,         \* the last ReadAt call: its arguments, the server, its return
    \* ---- Remote.Layers (SpecLayers)
    manifest,     \* r.image.Layers(): the descriptors, bottom layer first
    lpc,          \* position of Layers: "loop", "returned"
    eLayers,      \* the slice eLayers built so far
    probeLog,     \* every probe sent by redirect, in order
    layersRet,    \* what Layers returned: [layers, err]
    \* ---- run (Spec)
    layers,       \* the slice returned by r.Layers(ctx)
    mainPc,       \* position of run: "spawn", "wait", "done"
    loopI,        \* index of the element the loop variable `layer` holds
    wpc,          \* position of each worker goroutine
    wbuf,         \* each worker's local b
    result,       \* the sync.Map: digest -> payload
    gErr,         \* the errgroup's err (set once)
    ctxDone,      \* the errgroup's context is cancelled
    output,       \* the lines printed by fmt.Println, in order
    retErr,       \* the error run returned
    gets,         \* every ranged GET sent by the workers
    firstFail,    \* the first worker that returned an error, and its error
    stores        \* the number of result.Store calls made under each key

readVars == <<handle, call>>
layersVars == <<manifest, lpc, eLayers, probeLog, layersRet>>
runVars == <<layers, mainPc, loopI, wpc, wbuf, result, gErr, ctxDone, output,
             retErr, gets, firstFail, stores>>
vars == <<handle, call, manifest, lpc, eLayers, probeLog, layersRet,
          layers, mainPc, loopI, wpc, wbuf, result, gErr, ctxDone, output,
          retErr, gets, firstFail, stores>>

----------------------------------------------------------------------------
(* Bounds of the model *)

\* longest destination buffer passed to ReadAt
MaxBuf == 3
\* number of bytes a server may drop from the end of a body (early close)
MaxCut == 1
\* longest chain of redirects a server answers a ranged GET with
\* (besides the endless chain)
MaxHops == 1
\* longest manifest
MaxLayers == 3

(* Program constants *)

\* net/http: an http.Client with a nil CheckRedirect stops after 10 requests
MaxRedirects == 10

Min(a, b) == IF a < b THEN a ELSE b

----------------------------------------------------------------------------
(* Blobs of the registry.  A digest names its content for good: two        *)
(* descriptors with the same digest are the same bytes.                    *)

Digests == {"dA", "dB", "dC"}

\* the bytes of the blob
Blob(d) ==
    CASE d = "dA" -> <<11, 12, 13, 14>>
      [] d = "dB" -> <<21, 22>>
      [] d = "dC" -> <<31, 32, 33>>

NoURL == [host |-> "", digest |-> "", hop |-> 0]

\* blobURL: <scheme>://<registry>/v2/<repo>/blobs/<digest>
BlobURL(d) == [host |-> "registry", digest |-> d, hop |-> 0]

\* a Location a registry redirects the probe to
CDNURL(d) == [host |-> "cdn", digest |-> d, hop |-> 0]

\* the Location of the k-th redirect answered to a ranged GET
HopURL(u, k) == [host |-> "mirror", digest |-> u.digest, hop |-> k]

\* &Layer{digest, url, blobURL, size, rt}
MkLayer(d, u) ==
    [digest |-> d, url |-> u, blobURL |-> BlobURL(d), size |-> Len(Blob(d))]

\* the handles Layers can build for a digest
Handles == UNION {{MkLayer(d, BlobURL(d)), MkLayer(d, CDNURL(d))} : d \in Digests}

----------------------------------------------------------------------------
(* mime.ParseMediaType and strings.HasPrefix on the Content-Type header.   *)
(* A header value is [major, sub, upper, param]: "major/sub", written in   *)
(* upper case when upper, followed by no parameter, a well-formed one or a *)
(* malformed one.  The absent header is the empty string: major = "".      *)

CT(major, sub, upper, param) ==
    [major |-> major, sub |-> sub, upper |-> upper, param |-> param]

ContentTypes ==
    { CT("application", "octet-stream", FALSE, "none"),
      CT("application", "octet-stream", FALSE, "bad"),
      CT("multipart", "byteranges", FALSE, "ok"),
      CT("multipart", "byteranges", TRUE, "ok"),
      CT("multipart", "byteranges", FALSE, "bad"),
      CT("multipart", "", FALSE, "none"),
      CT("", "", FALSE, "none") }

\* mediatype = TrimSpace(ToLower(base)); "" and an error when it is empty,
\* the media type and ErrInvalidMediaParameter when a parameter is malformed
ParseMediaType(h) ==
    IF h.major = ""
    THEN [mediaType |-> [major |-> "", sub |-> "", upper |-> FALSE],
          err |-> "mime: no media type"]
    ELSE [mediaType |-> [major |-> h.major, sub |-> h.sub, upper |-> FALSE],
          err |-> IF h.param = "bad" THEN "mime: invalid media parameter"
                  ELSE "nil"]

\* the prefix test written without the slash
HasMultipartPrefixNoSlash(m) == m.major = "multipart" /\ ~m.upper

\* strings.HasPrefix(mediaType, "multipart/"): case-sensitive, needs the slash
HasMultipartPrefix(m) == m.major = "multipart" /\ ~m.upper /\ m.sub # ""

----------------------------------------------------------------------------
(* The server side of a ranged GET.  A behaviour srv is                    *)
(*   [hops, neterr, status, ctype, cut]:                                   *)
(* the server answers `hops` redirects (302 with a Location) and then      *)
(* either the transport fails (neterr) or the response has `status` and    *)
(* `ctype`; a 206 carries the bytes of the requested range, a 200 the      *)
(* whole blob; `cut` bytes are lost at the end of the body.                *)

ErrStatuses == {304, 404, 416, 500}
ReadStatuses == {200, 206} \cup ErrStatuses

HopChoices == (0 .. MaxHops) \cup {MaxRedirects}

Servers ==
    { s \in [hops : HopChoices, neterr : BOOLEAN, status : ReadStatuses,
             ctype : ContentTypes, cut : 0 .. MaxCut] :
        /\ s.neterr => (s.status = 200 /\ s.cut = 0)
        /\ s.status # 206 => s.ctype = CT("application", "octet-stream", FALSE, "none")
        /\ s.status \in ErrStatuses => s.cut = 0
        /\ s.hops = MaxRedirects => (~s.neterr /\ s.status = 200 /\ s.cut = 0) }

\* a server that honours Range with a single-part 206 and sends the body whole
Honours(s) ==
    /\ s.hops = 0 /\ ~s.neterr /\ s.status = 206 /\ s.cut = 0
    /\ s.ctype = CT("application", "octet-stream", FALSE, "none")

\* content[begin .. end], both inclusive and 0-based, clipped to the blob
Slice(content, begin, end) ==
    SubSeq(content, begin + 1, Min(end, Len(content) - 1) + 1)

DropLast(body, k) == SubSeq(body, 1, Len(body) - Min(k, Len(body)))

\* the body the server sends for bytes=begin-end
Body(s, content, begin, end) ==
    DropLast(CASE s.status = 200 -> content
               [] s.status = 206 ->
                    IF s.ctype.major = "multipart" /\ s.ctype.sub # ""
                    THEN <<255>> \o Slice(content, begin, end) \o <<255>>
                    ELSE Slice(content, begin, end)
               [] OTHER -> <<>>,
             s.cut)

----------------------------------------------------------------------------
(* Layer.fetch and Layer.ReadAt *)

\* one request: GET url with Range: bytes=begin-end
Req(u, begin, end) == [url |-> u, begin |-> begin, end |-> end]

\* the request built for l.blobURL, the URL the probe was sent to
RequestsToBlobURL(l, begin, end, s) ==
    [k \in 1 .. Min(s.hops + 1, MaxRedirects) |->
        Req(IF k = 1 THEN l.blobURL ELSE HopURL(l.blobURL, k - 1), begin, end)]

\* client.Do(req): the requests the http.Client sends.  It follows each
\* redirect with the headers of the first request and gives up once 10
\* requests were answered by a redirect.
Requests(l, begin, end, s) ==
    [k \in 1 .. Min(s.hops + 1, MaxRedirects) |->
        Req(IF k = 1 THEN l.url ELSE HopURL(l.url, k - 1), begin, end)]

FetchRet(err, status, body, reqs, open) ==
    [err |-> err, status |-> status, body |-> body, reqs |-> reqs, open |-> open]

\* fetch with the multipart test of line 160 dropped
fetchNoMultipartCheck(l, begin, end, s) ==
    LET reqs == Requests(l, begin, end, s)
        body == Body(s, Blob(l.digest), begin, end)
    IN  IF s.hops >= MaxRedirects \/ s.neterr
        THEN FetchRet("transport", 0, <<>>, reqs, FALSE)
        ELSE IF s.status \in {200, 206}
        THEN FetchRet("nil", s.status, body, reqs, TRUE)
        ELSE FetchRet("unexpected status code", s.status, <<>>, reqs, TRUE)

\* fetch that accepts every status as a body to read
fetchAnyStatus(l, begin, end, s) ==
    LET reqs == Requests(l, begin, end, s)
        body == Body(s, Blob(l.digest), begin, end)
    IN  IF s.hops >= MaxRedirects \/ s.neterr
        THEN FetchRet("transport", 0, <<>>, reqs, FALSE)
        ELSE FetchRet("nil", s.status, body, reqs, TRUE)

\* (l *Layer) fetch(ctx, begin, end): [err, status, body, reqs, open].
\* `open` tells that res.Body is still open when fetch returns.
fetch(l, begin, end, s) ==
    LET reqs == Requests(l, begin, end, s)
        body == Body(s, Blob(l.digest), begin, end)
        mt == ParseMediaType(s.ctype)
    IN  IF s.hops >= MaxRedirects \/ s.neterr
        THEN FetchRet("transport", 0, <<>>, reqs, FALSE)
        ELSE IF s.status = 200
        THEN FetchRet("nil", 200, body, reqs, TRUE)
        ELSE IF s.status = 206
        THEN IF mt.err # "nil"
             THEN FetchRet("invalid media type", 206, <<>>, reqs, TRUE)
             ELSE IF HasMultipartPrefix(mt.mediaType)
             THEN FetchRet("multipart not supported", 206, <<>>, reqs, TRUE)
             ELSE FetchRet("nil", 206, body, reqs, TRUE)
        ELSE FetchRet("unexpected status code", s.status, <<>>, reqs, TRUE)

\* rc.Read in place of io.ReadFull: a partial read is no error
ReadPartial(body, plen) ==
    LET n == Min(Len(body), plen)
    IN  [n |-> n,
         data |-> SubSeq(body, 1, n),
         err |-> IF n = 0 /\ plen > 0 THEN "EOF" ELSE "nil"]

\* io.ReadFull(rc, p): reads len(p) bytes or fails
ReadFull(body, plen) ==
    LET n == Min(Len(body), plen)
    IN  [n |-> n,
         data |-> SubSeq(body, 1, n),
         err |-> IF n = plen THEN "nil"
                 ELSE IF n = 0 THEN "EOF" ELSE "unexpected EOF"]

ReadRet(n, err, status, data, reqs, open) ==
    [n |-> n, err |-> err, status |-> status, data |-> data, reqs |-> reqs,
     open |-> open]

\* the guard of line 122
ReadAtSkips(plen, off, size) == plen = 0 \/ off > size

\* the last byte asked for, one too far
RangeEndPlusOne(off, plen) == off + plen

\* the inclusive end of the range of line 127
RangeEnd(off, plen) == off + plen - 1

\* (l *Layer) ReadAt(p, offset): [n, err, status, data, reqs, open].
\* data is p[:n]; open tells that a response body is left open on return.
ReadAt(l, plen, off, s) ==
    IF ReadAtSkips(plen, off, l.size)
    THEN ReadRet(0, "nil", 0, <<>>, <<>>, FALSE)
    ELSE LET f == fetch(l, off, RangeEnd(off, plen), s)
             r == ReadFull(f.body, plen)
         IN  IF f.err # "nil"
             THEN ReadRet(0, f.err, f.status, <<>>, f.reqs, f.open)
             ELSE ReadRet(r.n, r.err, f.status, r.data, f.reqs, FALSE)

----------------------------------------------------------------------------
(* SpecReadAt: a caller reads a resolved layer through ReadAt *)

\* no entry of the sync.Map under a key
Absent == [ok |-> FALSE, v |-> <<>>]

\* the nil error of a worker, of the group and of run
NoErr == [w |-> 0, err |-> "nil"]

NoCall == [made |-> FALSE, plen |-> 0, off |-> 0, srv |-> "none", ret |-> "none"]

IdleLayers ==
    /\ manifest = <<>> /\ lpc = "idle" /\ eLayers = <<>> /\ probeLog = <<>>
    /\ layersRet = "none"

IdleRun ==
    /\ layers = <<>> /\ mainPc = "idle" /\ loopI = 0 /\ wpc = <<>> /\ wbuf = <<>>
    /\ result = [d \in Digests |-> Absent] /\ gErr = NoErr /\ ctxDone = FALSE
    /\ output = <<>> /\ retErr = NoErr /\ gets = {} /\ firstFail = NoErr
    /\ stores = [d \in Digests |-> 0]

IdleRead == handle = "none" /\ call = NoCall

InitReadAt ==
    /\ handle \in Handles
    /\ call = NoCall
    /\ IdleLayers
    /\ IdleRun

\* one call l.ReadAt(p, off) with len(p) = plen, answered by server s
ReadAtCall(plen, off, s) ==
    /\ ~call.made
    /\ call' = [made |-> TRUE, plen |-> plen, off |-> off, srv |-> s,
                ret |-> ReadAt(handle, plen, off, s)]
    /\ UNCHANGED <<handle, layersVars, runVars>>

NextReadAt ==
    \E plen \in 0 .. MaxBuf, off \in 0 .. (handle.size + 1), s \in Servers :
        ReadAtCall(plen, off, s)

SpecReadAt == InitReadAt /\ [][NextReadAt]_vars

----------------------------------------------------------------------------
(* redirect and Remote.Layers (SpecLayers) *)

\* what tr.RoundTrip(req) gives the probe: a transport error (a timeout of the
\* 30 s context included) or a response with a status and a Location header
ProbeStatuses == {200, 206, 302, 307, 404, 500}

ProbeAnswers(d) ==
    { a \in [neterr : BOOLEAN, status : ProbeStatuses,
             location : {NoURL, CDNURL(d)}] :
        a.neterr => (a.status = 200 /\ a.location = NoURL) }

\* what an iteration of the loop of Layers meets: an error of layer.Size() or
\* layer.Digest(), or an answer to the probe
Outcomes(d) ==
    {[kind |-> "size"], [kind |-> "digest"]} \cup
    {[kind |-> "probe", answer |-> a] : a \in ProbeAnswers(d)}

\* redirect that takes any Location, whatever the status class
redirectAnyLocation(blobURL, a) ==
    IF a.neterr
    THEN [url |-> NoURL, err |-> "failed to request", probes |-> <<blobURL>>]
    ELSE IF a.status \div 100 = 2
    THEN [url |-> blobURL, err |-> "nil", probes |-> <<blobURL>>]
    ELSE IF a.location # NoURL
    THEN [url |-> a.location, err |-> "nil", probes |-> <<blobURL>>]
    ELSE [url |-> NoURL, err |-> "failed to access", probes |-> <<blobURL>>]

\* redirect(ctx, blobURL, tr, timeout): [url, err, probes]; probes are the
\* URLs it sent a request to (one RoundTrip, which follows nothing)
redirect(blobURL, a) ==
    IF a.neterr
    THEN [url |-> NoURL, err |-> "failed to request", probes |-> <<blobURL>>]
    ELSE IF a.status \div 100 = 2
    THEN [url |-> blobURL, err |-> "nil", probes |-> <<blobURL>>]
    ELSE IF a.location # NoURL /\ a.status \div 100 = 3
    THEN [url |-> a.location, err |-> "nil", probes |-> <<blobURL>>]
    ELSE [url |-> NoURL, err |-> "failed to access", probes |-> <<blobURL>>]

\* Layers that goes on to the next layer when a probe failed
ProbeFailedNever(r) == FALSE

\* the test of line 88
ProbeFailed(r) == r.err # "nil"

Manifests == UNION {[1 .. n -> Digests] : n \in 0 .. MaxLayers}

InitLayers ==
    /\ manifest \in Manifests
    /\ lpc = "start"
    /\ eLayers = <<>>
    /\ probeLog = <<>>
    /\ layersRet = "none"
    /\ IdleRead
    /\ IdleRun

\* lines 60-63: r.image.Layers()
LayersStart(ok) ==
    /\ lpc = "start"
    /\ IF ok
       THEN lpc' = "loop" /\ UNCHANGED layersRet
       ELSE lpc' = "returned" /\ layersRet' = [layers |-> <<>>, err |-> "image"]
    /\ UNCHANGED <<manifest, eLayers, probeLog, readVars, runVars>>

\* lines 72-99: one iteration of the loop, for the descriptor after the last
\* layer appended
LayersIter(d, o) ==
    /\ lpc = "loop"
    /\ Len(eLayers) < Len(manifest)
    /\ d = manifest[Len(eLayers) + 1]
    /\     IF o.kind # "probe"
           THEN /\ lpc' = "returned"
                /\ layersRet' = [layers |-> <<>>, err |-> o.kind]
                /\ UNCHANGED <<eLayers, probeLog>>
           ELSE LET r == redirect(BlobURL(d), o.answer)
                IN  /\ probeLog' = Append(probeLog,
                          [digest |-> d, targets |-> r.probes,
                           answer |-> o.answer, url |-> r.url, err |-> r.err])
                    /\ IF ProbeFailed(r)
                       THEN /\ lpc' = "returned"
                            /\ layersRet' = [layers |-> <<>>, err |-> r.err]
                            /\ UNCHANGED eLayers
                       ELSE /\ eLayers' = Append(eLayers, MkLayer(d, r.url))
                            /\ UNCHANGED <<lpc, layersRet>>
    /\ UNCHANGED <<manifest, readVars, runVars>>

\* line 101
LayersReturn ==
    /\ lpc = "loop"
    /\ Len(eLayers) = Len(manifest)
    /\ lpc' = "returned"
    /\ layersRet' = [layers |-> eLayers, err |-> "nil"]
    /\ UNCHANGED <<manifest, eLayers, probeLog, readVars, runVars>>

NextLayers ==
    \/ \E ok \in BOOLEAN : LayersStart(ok)
    \/ \E d \in Digests : \E o \in Outcomes(d) : LayersIter(d, o)
    \/ LayersReturn

SpecLayers == InitLayers /\ [][NextLayers]_vars

----------------------------------------------------------------------------
(* The archive reader (estargz) over io.NewSectionReader(l, 0, l.Size()).  *)
(* Its format is opaque: a blob ends with a footer of FooterLen bytes,     *)
(* which Open reads, and holds the payload of the path, when it has the    *)
(* path, at FileOff .. FileOff+FileLen-1.  The reader checks what it reads *)
(* (framing, checksums): bytes other than the blob's own make it fail.     *)

FooterLen == 1

HasPath(d) == d \in {"dA", "dC"}
FileOff(d) == IF d = "dA" THEN 1 ELSE 0
FileLen(d) == 2

\* the payload stored for the path in the blob
Payload(d) == SubSeq(Blob(d), FileOff(d) + 1, FileOff(d) + FileLen(d))

\* the layer read without the section reader around it
SectionReadAtUnclamped(l, plen, off, s) == ReadAt(l, plen, off, s)

\* (s *SectionReader) ReadAt(p, off) with base 0 and limit l.size
SectionReadAt(l, plen, off, s) ==
    IF off < 0 \/ off >= l.size
    THEN ReadRet(0, "EOF", 0, <<>>, <<>>, FALSE)
    ELSE LET max == l.size - off
             r == ReadAt(l, Min(plen, max), off, s)
         IN  IF plen > max /\ r.err = "nil" THEN [r EXCEPT !.err = "EOF"] ELSE r

\* SpecSection: the archive reader reads the layer through the section reader,
\* at any offset and with any buffer
SectionCall(plen, off, s) ==
    /\ ~call.made
    /\ call' = [made |-> TRUE, plen |-> plen, off |-> off, srv |-> s,
                ret |-> SectionReadAt(handle, plen, off, s)]
    /\ UNCHANGED <<handle, layersVars, runVars>>

NextSection ==
    \E plen \in 0 .. MaxBuf, off \in 0 .. (handle.size + 1), s \in Servers :
        SectionCall(plen, off, s)

SpecSection == InitReadAt /\ [][NextSection]_vars

\* a read of the archive reader: the error of the byte source, or a format
\* error when the bytes are not those of the blob
ArchiveRead(l, off, plen, s) ==
    LET r == SectionReadAt(l, plen, off, s)
    IN  [err |-> IF r.err # "nil" THEN r.err
                 ELSE IF r.data # SubSeq(Blob(l.digest), off + 1, off + plen)
                 THEN "archive format" ELSE "nil",
         data |-> r.data,
         reqs |-> r.reqs]

\* the answers met during the lookup: the range honoured (206), the range
\* ignored (200 with the whole blob), a failure (404); no redirect
LookupServers ==
    { [hops |-> 0, neterr |-> FALSE, status |-> st,
       ctype |-> CT("application", "octet-stream", FALSE, "none"), cut |-> 0] :
        st \in {200, 206, 404} }

----------------------------------------------------------------------------
(* run (Spec): lines 46-87 of cmd/ecrane/main.go *)

Workers == 1 .. Len(layers)

\* the lists Layers returns: the registry serves dA itself and redirects the
\* probes of dB and dC to the CDN
Resolved(d) == MkLayer(d, IF d = "dA" THEN BlobURL(d) ELSE CDNURL(d))

LayerLists == UNION {[1 .. n -> {Resolved(d) : d \in Digests}] : n \in 0 .. MaxLayers}

Init ==
    /\ layers \in LayerLists
    /\ mainPc = "spawn"
    /\ loopI = 0
    /\ wpc = [i \in 1 .. Len(layers) |-> "idle"]
    /\ wbuf = [i \in 1 .. Len(layers) |-> <<>>]
    /\ result = [d \in Digests |-> Absent]
    /\ gErr = NoErr
    /\ ctxDone = FALSE
    /\ output = <<>>
    /\ retErr = NoErr
    /\ gets = {}
    /\ firstFail = NoErr
    /\ stores = [d \in Digests |-> 0]
    /\ IdleRead
    /\ IdleLayers

\* errgroup that keeps the error of the last goroutine to fail
RecordErrLast(g, e) == e

\* errgroup: g.errOnce.Do(func() { g.err = err; cancel() })
RecordErr(g, e) == IF g = NoErr THEN e ELSE g

\* the key of line 69: layer.Digest(), read from the loop variable `layer`,
\* which the goroutines share with the loop of line 49
StoreKey(i) == layers[loopI].digest

\* lines 49-51: one iteration of the loop: layer = layers[loopI+1]; l := layer;
\* g.Go(...)
Spawn ==
    /\ mainPc = "spawn"
    /\ loopI < Len(layers)
    /\ loopI' = loopI + 1
    /\ wpc' = [wpc EXCEPT ![loopI + 1] = "open"]
    /\ UNCHANGED <<layers, mainPc, wbuf, result, gErr, ctxDone, output, retErr,
                   gets, firstFail, stores, readVars, layersVars>>

\* line 73: the loop ends; `layer` keeps the last element
LoopExit ==
    /\ mainPc = "spawn"
    /\ loopI = Len(layers)
    /\ mainPc' = "wait"
    /\ UNCHANGED <<layers, loopI, wpc, wbuf, result, gErr, ctxDone, output,
                   retErr, gets, firstFail, stores, readVars, layersVars>>

\* the goroutine of g.Go returns err: the group keeps the first error and
\* cancels its context
WorkerFails(i, e) ==
    /\ wpc' = [wpc EXCEPT ![i] = "failed"]
    /\ firstFail' = IF firstFail = NoErr THEN [w |-> i, err |-> e] ELSE firstFail
    /\ gErr' = RecordErr(gErr, [w |-> i, err |-> e])
    /\ ctxDone' = TRUE

Sent(i, reqs) == {[w |-> i, req |-> reqs[k]] : k \in 1 .. Len(reqs)}

\* lines 52-58: sr := io.NewSectionReader(l, 0, l.Size()); estargz.Open(sr);
\* esgz.Lookup(filePath)
WorkerOpen(i, s) ==
    /\ i \in Workers
    /\ wpc[i] = "open"
    /\ LET l == layers[i]
           r == ArchiveRead(l, l.size - FooterLen, FooterLen, s)
       IN  /\ gets' = gets \cup Sent(i, r.reqs)
           /\ IF r.err # "nil"
              THEN WorkerFails(i, r.err)
              ELSE /\ wpc' = [wpc EXCEPT ![i] =
                                 IF HasPath(l.digest) THEN "read" ELSE "done"]
                   /\ UNCHANGED <<firstFail, gErr, ctxDone>>
    /\ UNCHANGED <<layers, mainPc, loopI, wbuf, result, output, retErr,
                   stores, readVars, layersVars>>

\* lines 59-67: esgz.OpenFile(e.Name); io.ReadAll(sr)
WorkerRead(i, s) ==
    /\ i \in Workers
    /\ wpc[i] = "read"
    /\ LET l == layers[i]
           r == ArchiveRead(l, FileOff(l.digest), FileLen(l.digest), s)
       IN  /\ gets' = gets \cup Sent(i, r.reqs)
           /\ IF r.err # "nil"
              THEN WorkerFails(i, r.err) /\ UNCHANGED wbuf
              ELSE /\ wpc' = [wpc EXCEPT ![i] = "store"]
                   /\ wbuf' = [wbuf EXCEPT ![i] = r.data]
                   /\ UNCHANGED <<firstFail, gErr, ctxDone>>
    /\ UNCHANGED <<layers, mainPc, loopI, result, output, retErr,
                   stores, readVars, layersVars>>

\* lines 69-71: result.Store(layer.Digest(), b); return nil
WorkerStore(i) ==
    /\ i \in Workers
    /\ wpc[i] = "store"
    /\ result' = [result EXCEPT ![StoreKey(i)] = [ok |-> TRUE, v |-> wbuf[i]]]
    /\ stores' = [stores EXCEPT ![StoreKey(i)] = @ + 1]
    /\ wpc' = [wpc EXCEPT ![i] = "done"]
    /\ UNCHANGED <<layers, mainPc, loopI, wbuf, gErr, ctxDone, output, retErr,
                   gets, firstFail, readVars, layersVars>>

\* a Wait that returns as soon as one goroutine of the group has returned
AnyReturned ==
    Workers = {} \/ \E i \in Workers : wpc[i] \in {"done", "failed"}

\* g.Wait() returns once every goroutine of the group has returned
AllReturned == \A i \in Workers : wpc[i] \in {"done", "failed"}

\* line 75: err = g.Wait(); err != nil
WaitFailed(g) == g # NoErr

\* a scan that prints a line for every layer, an empty one when the mapping
\* has no entry for its digest
RECURSIVE ScanAll(_)
ScanAll(i) ==
    IF i = 0 THEN <<>>
    ELSE IF result[layers[i].digest].ok
         THEN <<result[layers[i].digest].v>> \o ScanAll(i - 1)
         ELSE <<<<>>>> \o ScanAll(i - 1)

\* lines 79-85: the payloads printed by the scan from layers[i] down to
\* layers[1]
RECURSIVE Scan(_)
Scan(i) ==
    IF i = 0 THEN <<>>
    ELSE IF result[layers[i].digest].ok
         THEN <<result[layers[i].digest].v>> \o Scan(i - 1)
         ELSE Scan(i - 1)

\* lines 75-87: g.Wait(), then return the error or print and return nil
WaitAndPrint ==
    /\ mainPc = "wait"
    /\ AllReturned
    /\ mainPc' = "done"
    /\ ctxDone' = TRUE
    /\ IF WaitFailed(gErr)
       THEN retErr' = gErr /\ UNCHANGED output
       ELSE retErr' = NoErr /\ output' = Scan(Len(layers))
    /\ UNCHANGED <<layers, loopI, wpc, wbuf, result, gErr, gets, firstFail,
                   stores, readVars, layersVars>>

Next ==
    \/ Spawn
    \/ LoopExit
    \/ \E i \in Workers, s \in LookupServers : WorkerOpen(i, s)
    \/ \E i \in Workers, s \in LookupServers : WorkerRead(i, s)
    \/ \E i \in Workers : WorkerStore(i)
    \/ WaitAndPrint

Spec == Init /\ [][Next]_vars

----------------------------------------------------------------------------
(* Claims about Layer.ReadAt, checked under SpecReadAt *)

\* the call reached the request of line 127
Fetched == call.made /\ ~(call.plen = 0 \/ call.off > handle.size)

\* client.Do returned a response (no transport error, no endless redirect)
Answered == Fetched /\ ~call.srv.neterr /\ call.srv.hops < MaxRedirects

\* the status of the first response the server sent to the ranged GET
FirstStatus == IF call.srv.hops > 0 THEN 302 ELSE call.srv.status

\* the header names a multipart type: "multipart/<sub>" in any case
IsMultipartType(h) == h.major = "multipart" /\ h.sub # ""

\* C5 (as claimed): a ReadAt with an empty buffer or with offset >= size
\* (offset = size included) returns 0 bytes, a nil error and sends no request.
C5_NoopAtOrPastSize ==
    (call.made /\ (call.plen = 0 \/ call.off >= handle.size)) =>
        /\ call.ret.n = 0
        /\ call.ret.err = "nil"
        /\ call.ret.reqs = <<>>

\* C6: against a server that honours Range with a single-part 206, a ReadAt
\* with a non-empty buffer and offset < size sends one GET for the inclusive
\* range [offset, offset+len(p)-1], returns n = min(len(p), size-offset) and
\* fills p[:n] with content[offset .. offset+n).
C6_HonouredRangeRead ==
    (call.made /\ call.plen > 0 /\ call.off < handle.size /\ Honours(call.srv)) =>
        LET want == IF call.plen < handle.size - call.off
                    THEN call.plen ELSE handle.size - call.off
        IN  /\ call.ret.reqs =
                 <<[url |-> handle.url, begin |-> call.off,
                    end |-> call.off + call.plen - 1]>>
            /\ call.ret.n = want
            /\ Len(call.ret.data) = want
            /\ \A i \in 1 .. want :
                 call.ret.data[i] = Blob(handle.digest)[call.off + i]

\* a honoured read whose buffer reaches past the end of the blob
C6_Witness ==
    /\ call.made /\ call.plen > 0 /\ call.off < handle.size /\ Honours(call.srv)
    /\ call.off > 0
    /\ call.plen > handle.size - call.off
    /\ call.ret.n = handle.size - call.off

\* C9: a 206 whose Content-Type names a multipart type makes the read fail:
\* with "multipart not supported" when the header parses, with the invalid
\* media type error when its parameter is malformed; ReadAt returns 0 bytes
\* and copies nothing of the body.
C9_MultipartRejected ==
    (Answered /\ call.srv.status = 206 /\ IsMultipartType(call.srv.ctype)) =>
        /\ call.ret.n = 0
        /\ call.ret.data = <<>>
        /\ call.ret.err = IF call.srv.ctype.param = "bad"
                          THEN "invalid media type"
                          ELSE "multipart not supported"

\* a multipart 206, written in upper case, whose body holds bytes, is refused
C9_Witness ==
    /\ Answered /\ call.srv.status = 206 /\ IsMultipartType(call.srv.ctype)
    /\ call.srv.ctype.upper
    /\ Body(call.srv, Blob(handle.digest), call.off, call.off + call.plen - 1) # <<>>
    /\ call.ret.err = "multipart not supported"
    /\ call.ret.n = 0

----------------------------------------------------------------------------
(* Claims about redirect and Remote.Layers, checked under SpecLayers *)

\* C7: redirect sends one probe, to the canonical blob URL, and maps the
\* answer: any 2xx gives the canonical URL; any 3xx with a non-empty Location
\* gives that Location (which is not probed); anything else (3xx without
\* Location, 4xx, 5xx, transport error or timeout) gives an error and no URL.
C7_RedirectMapping ==
    \A k \in 1 .. Len(probeLog) :
        LET e == probeLog[k]
            a == e.answer
            is2xx == ~a.neterr /\ 200 <= a.status /\ a.status <= 299
            is3xxLoc == ~a.neterr /\ 300 <= a.status /\ a.status <= 399
                        /\ a.location # NoURL
        IN  /\ e.targets = <<[host |-> "registry", digest |-> e.digest, hop |-> 0]>>
            /\ is2xx => (e.err = "nil" /\ e.url = BlobURL(e.digest))
            /\ is3xxLoc => (e.err = "nil" /\ e.url = a.location)
            /\ ~(is2xx \/ is3xxLoc) => (e.err # "nil" /\ e.url = NoURL)

\* every branch of the mapping happened: a 2xx that carries a Location, a
\* 302 with a Location, a 302 without one and a 404 that carries a Location
C7_Witness ==
    /\ \E k \in 1 .. Len(probeLog) :
           /\ probeLog[k].answer.status = 302
           /\ probeLog[k].answer.location # NoURL
           /\ probeLog[k].url = probeLog[k].answer.location
    /\ \E k \in 1 .. Len(probeLog) :
           /\ ~probeLog[k].answer.neterr
           /\ probeLog[k].answer.status = 404
           /\ probeLog[k].answer.location # NoURL
           /\ probeLog[k].err # "nil"

\* C8: Layers returns an error and no list, or a list with one resolved layer
\* per descriptor in manifest order; a failed probe is the last probe sent,
\* and Layers has then returned the error with no list.
C8_AllOrNothing ==
    /\ lpc = "returned" =>
          \/ layersRet.err # "nil" /\ layersRet.layers = <<>>
          \/ /\ layersRet.err = "nil"
             /\ Len(layersRet.layers) = Len(manifest)
             /\ Len(probeLog) = Len(manifest)
             /\ \A i \in 1 .. Len(manifest) :
                   /\ layersRet.layers[i].digest = manifest[i]
                   /\ layersRet.layers[i].size = Len(Blob(manifest[i]))
                   /\ layersRet.layers[i].url = probeLog[i].url
                   /\ layersRet.layers[i].url # NoURL
    /\ \A k \in 1 .. Len(probeLog) :
          /\ probeLog[k].digest = manifest[k]
          /\ probeLog[k].err # "nil" =>
                /\ k = Len(probeLog)
                /\ lpc = "returned"
                /\ layersRet.err # "nil"
                /\ layersRet.layers = <<>>

\* the probe of the first of two layers failed: Layers returned, no list, and
\* the second layer was never probed
C8_Witness ==
    /\ Len(manifest) = 2
    /\ Len(probeLog) = 1
    /\ probeLog[1].err # "nil"
    /\ lpc = "returned"
    /\ layersRet.layers = <<>>

----------------------------------------------------------------------------
(* Claims about run, checked under Spec *)

\* run returned nil: g.Wait() gave no error
Succeeded == mainPc = "done" /\ retErr = NoErr

\* the positions of the layers that hold the path
Holders == {i \in 1 .. Len(layers) : HasPath(layers[i].digest)}

\* the highest position that holds the path
Topmost == CHOOSE i \in Holders : \A j \in Holders : j <= i

\* C1 (as claimed): when every worker succeeded and some layer holds the
\* path, what run reports first is the payload of the highest layer that
\* holds the path, whatever the order in which the workers ran.
C1_TopmostWins ==
    (Succeeded /\ Holders # {}) =>
        /\ output # <<>>
        /\ output[1] = Payload(layers[Topmost].digest)

\* C2 (as claimed): on success, with the path present in some layer, run
\* prints exactly one payload: the scan stops at the first hit.
C2_OnePayload ==
    (Succeeded /\ Holders # {}) => Len(output) = 1

\* C3: when a worker failed, run returns the error of the first worker that
\* failed and prints nothing, whatever the other workers stored.
C3_FirstErrorNoOutput ==
    /\ firstFail # NoErr => output = <<>>
    /\ (mainPc = "done" /\ firstFail # NoErr) =>
          /\ retErr = firstFail
          /\ retErr.err # "nil"
          /\ wpc[retErr.w] = "failed"

\* run returned the error of the first of two failed workers while a third
\* worker had stored its payload
C3_Witness ==
    /\ mainPc = "done"
    /\ retErr # NoErr
    /\ \E i \in Workers : i # retErr.w /\ wpc[i] = "failed"
    /\ \E d \in Digests : result[d].ok
    /\ output = <<>>

\* C4 (as claimed): once a worker has returned an error (the context of the
\* group is cancelled), no worker sends a further ranged GET and none
\* carries its lookup to completion.
C4_CancelStopsSiblings ==
    [][ctxDone =>
         /\ gets' = gets
         /\ \A i \in Workers : wpc'[i] = "done" => wpc[i] = "done"]_vars

----------------------------------------------------------------------------
(* More claims about Layer.ReadAt, checked under SpecReadAt *)

\* the header parses: it is not empty and its parameter is not malformed
Parses(h) == h.major # "" /\ h.param # "bad"

\* fetch handed the body of the response to ReadAt
Accepted ==
    /\ Answered
    /\ \/ call.srv.status = 200
       \/ /\ call.srv.status = 206
          /\ Parses(call.srv.ctype)
          /\ ~IsMultipartType(call.srv.ctype)

\* the body the server sent to the call
SentBody ==
    Body(call.srv, Blob(handle.digest), call.off, call.off + call.plen - 1)

\* C11: when the body of an accepted 200 or 206 ends before len(p) bytes,
\* ReadAt returns a non-nil error: EOF when no byte came, unexpected EOF
\* when at least one byte and fewer than len(p) came.
C11_ShortReadIsError ==
    (Accepted /\ Len(SentBody) < call.plen) =>
        /\ call.ret.err # "nil"
        /\ call.ret.n = Len(SentBody)
        /\ call.ret.n = 0 => call.ret.err = "EOF"
        /\ call.ret.n > 0 => call.ret.err = "unexpected EOF"

\* a 206 whose body lost its last byte: two bytes of three arrived
C11_Witness ==
    /\ Accepted /\ call.srv.status = 206 /\ call.srv.cut = 1
    /\ call.plen = 3
    /\ call.ret.n = 2
    /\ call.ret.err = "unexpected EOF"

\* what ReadAt returns once fetch accepted the response: the first bytes of
\* the body, with nil or a short-read error
ReadFromBody ==
    /\ call.ret.status = call.srv.status
    /\ call.ret.err \in {"nil", "EOF", "unexpected EOF"}
    /\ call.ret.n = IF Len(SentBody) < call.plen THEN Len(SentBody) ELSE call.plen
    /\ call.ret.data = SubSeq(SentBody, 1, call.ret.n)

\* C15 (as claimed): every 206 that is not a multipart response is accepted
\* and its body is read into the buffer, whatever its Content-Type, absent
\* and unparsable ones included.
C15_AnySinglePart206Accepted ==
    (Answered /\ call.srv.status = 206 /\ ~IsMultipartType(call.srv.ctype)) =>
        ReadFromBody

\* C15 (amended): a 206 whose Content-Type parses to a media type that does
\* not start with "multipart/" is accepted and its body is read into the
\* buffer; a 206 whose Content-Type is absent or does not parse is refused
\* with the invalid media type error and nothing is read.
C15_Parsed206Accepted ==
    /\ (Answered /\ call.srv.status = 206 /\ Parses(call.srv.ctype)
          /\ ~IsMultipartType(call.srv.ctype)) => ReadFromBody
    /\ (Answered /\ call.srv.status = 206 /\ ~Parses(call.srv.ctype)) =>
          /\ call.ret.err = "invalid media type"
          /\ call.ret.n = 0
          /\ call.ret.data = <<>>

\* a 206 with the Content-Type "multipart" (no subtype) is read whole
C15_Witness ==
    /\ Answered /\ call.srv.status = 206
    /\ call.srv.ctype.major = "multipart" /\ call.srv.ctype.sub = ""
    /\ call.ret.err = "nil"
    /\ call.ret.n = call.plen
    /\ call.plen > 1

\* C18 (as claimed): whenever ReadAt returns a nil error and n > 0, the n
\* bytes of the buffer are content[offset .. offset+n), for a 206 and for a
\* 200 that carries the whole blob.
C18_BytesAreTheWindow ==
    (call.made /\ call.ret.err = "nil" /\ call.ret.n > 0) =>
        /\ Len(call.ret.data) = call.ret.n
        /\ \A i \in 1 .. call.ret.n :
              /\ call.off + i <= handle.size
              /\ call.ret.data[i] = Blob(handle.digest)[call.off + i]

\* C19 (as claimed): no response body is open when ReadAt returns, on any
\* path: accepted, multipart, invalid Content-Type, unexpected status.
C19_BodyClosed ==
    call.made => ~call.ret.open

----------------------------------------------------------------------------
(* Claim about the section reader of line 52, checked under SpecSection *)

\* C20: read through io.NewSectionReader(l, 0, l.Size()), every ranged GET
\* sent for a layer has 0 <= begin <= end <= size-1.
C20_GetsInsideLayer ==
    call.made =>
        \A k \in 1 .. Len(call.ret.reqs) :
            /\ 0 <= call.ret.reqs[k].begin
            /\ call.ret.reqs[k].begin <= call.ret.reqs[k].end
            /\ call.ret.reqs[k].end <= handle.size - 1

\* a read that reaches past the end of the layer was cut to its last byte
C20_Witness ==
    /\ call.made
    /\ call.off + call.plen > handle.size
    /\ Len(call.ret.reqs) = 1
    /\ call.ret.reqs[1].begin = call.off
    /\ call.ret.reqs[1].end = handle.size - 1
    /\ call.ret.n = handle.size - call.off
    /\ call.ret.err = "EOF"

----------------------------------------------------------------------------
(* Claims about the result mapping and the resolver, checked under Spec *)

\* every goroutine of the group has returned nil
AllSucceeded ==
    /\ mainPc # "spawn"
    /\ \A i \in Workers : wpc[i] = "done"

\* C12 (as claimed): after all workers have completed without error, the
\* mapping has an entry under digest d exactly when a layer with digest d
\* holds the path, and that entry is the payload a worker read from a layer
\* with that digest, for every interleaving of the workers with the loop.
C12_StoredUnderOwnDigest ==
    AllSucceeded =>
        \A d \in Digests :
            /\ result[d].ok <=>
                  \E i \in Workers : layers[i].digest = d /\ HasPath(d)
            /\ result[d].ok =>
                  \E i \in Workers : layers[i].digest = d /\ result[d].v = wbuf[i]

\* C13 (as claimed): in every execution no key of the mapping is written
\* more than once, for every layer list, lists that carry one digest at two
\* positions included.
C13_OneStorePerKey ==
    \A d \in Digests : stores[d] <= 1

\* C14: the scan of the mapping and the printing happen only after every
\* spawned goroutine has returned: once run has printed or returned, no
\* worker is still running, and the mapping no longer changes.
C14_GatherThenResolve ==
    (mainPc = "done" \/ output # <<>>) =>
        /\ loopI = Len(layers)
        /\ \A i \in Workers : wpc[i] \in {"done", "failed"}
        /\ output = IF retErr = NoErr THEN Scan(Len(layers)) ELSE <<>>

\* run printed a payload after three workers had returned
C14_Witness ==
    /\ mainPc = "done"
    /\ output # <<>>
    /\ Len(layers) = 3
    /\ \E i \in Workers : wpc[i] = "done" /\ ~HasPath(layers[i].digest)

\* C17: when every worker succeeded and no layer holds the path, run prints
\* nothing and returns nil; a hit prints at least one payload and a failure
\* returns a non-nil error, so the three outcomes differ.
C17_NotFoundIsDistinct ==
    /\ (Succeeded /\ Holders = {}) => output = <<>>
    /\ (Succeeded /\ Holders # {}) => output # <<>>
    /\ (mainPc = "done" /\ ~Succeeded) => retErr.err # "nil" /\ output = <<>>

\* run returned nil and printed nothing for two layers without the path
C17_Witness ==
    /\ Succeeded
    /\ Len(layers) >= 2
    /\ Holders = {}
    /\ output = <<>>
    /\ \A i \in Workers : wpc[i] = "done"

====
